---- MODULE Spec2Model ----
(***************************************************************************)
(* beets-extrafiles: the ExtraFilesPlugin of beetsplug/extrafiles.py as a  *)
(* state machine over a small filesystem.                                  *)
(*                                                                         *)
(* Strings are sequences of one-character strings, a path is the sequence  *)
(* of its components below the filesystem root (every path of the model is *)
(* absolute unless said otherwise), and the filesystem maps each existing  *)
(* path to a node.                                                         *)
(***************************************************************************)
EXTENDS Naturals, Sequences, FiniteSets, TLC

(***************************************************************************)
(* Strings                                                                 *)
(***************************************************************************)
Slash == "/"
Dot == "."
Star == "*"

\* str.rfind(c), 1-based, 0 when c does not occur
RFind(s, c) ==
    LET hits == {i \in 1..Len(s) : s[i] = c}
    IN IF hits = {} THEN 0 ELSE CHOOSE i \in hits : \A j \in hits : j <= i

\* str.find(c), 1-based, 0 when c does not occur
Find(s, c) ==
    LET hits == {i \in 1..Len(s) : s[i] = c}
    IN IF hits = {} THEN 0 ELSE CHOOSE i \in hits : \A j \in hits : i <= j

\* str.replace(a, b) for one-character a and b
ReplaceChar(s, a, b) == [i \in 1..Len(s) |-> IF s[i] = a THEN b ELSE s[i]]

\* str.split(c): the pieces between the occurrences of c (empty pieces kept)
RECURSIVE Split(_, _)
Split(s, c) ==
    LET i == Find(s, c)
    IN IF i = 0 THEN <<s>>
       ELSE <<SubSeq(s, 1, i - 1)>> \o Split(SubSeq(s, i + 1, Len(s)), c)

\* c.join(parts)
RECURSIVE Join(_, _)
Join(parts, c) ==
    IF parts = <<>> THEN <<>>
    ELSE IF Len(parts) = 1 THEN parts[1]
    ELSE parts[1] \o <<c>> \o Join(Tail(parts), c)

SelectNonEmpty(parts) == SelectSeq(parts, LAMBDA p : p # <<>>)

(***************************************************************************)
(* pathlib                                                                 *)
(***************************************************************************)
\* Path(s): the components of s; empty and "." components are dropped
ParsePath(s) == SelectSeq(Split(s, Slash), LAMBDA p : p # <<>> /\ p # <<Dot>>)

\* str(p) of an absolute path
PathStr(p) == <<Slash>> \o Join(p, Slash)

\* str(p) of a relative path ("." when it has no component)
RelStr(p) == IF p = <<>> THEN <<Dot>> ELSE Join(p, Slash)

Parent(p) == IF p = <<>> THEN <<>> ELSE SubSeq(p, 1, Len(p) - 1)
Name(p) == IF p = <<>> THEN <<>> ELSE p[Len(p)]

\* PurePath.suffix of a final component: from the last dot on, when that dot
\* is neither the first nor the last character
SuffixOf(name) ==
    LET i == RFind(name, Dot)
    IN IF 1 < i /\ i < Len(name) THEN SubSeq(name, i, Len(name)) ELSE <<>>

\* PurePath.stem of a final component
StemOf(name) ==
    LET i == RFind(name, Dot)
    IN IF 1 < i /\ i < Len(name) THEN SubSeq(name, 1, i - 1) ELSE name

IsPrefix(a, b) == Len(a) <= Len(b) /\ SubSeq(b, 1, Len(a)) = a
IsUnder(p, d) == IsPrefix(d, p) /\ p # d

\* the proper ancestors of p below the root, shallowest first
Ancestry(p) == [i \in 1..(Len(p) - 1) |-> SubSeq(p, 1, i)]

(***************************************************************************)
(* The filesystem: fs maps each existing path to a node                    *)
(*   [kind: "file" | "dir" | "symlink", ino, data, target]                 *)
(* ino is the inode, data of a file names its content (the number of the   *)
(* file the content was first seen in), target is where a symlink points.  *)
(* The root always exists and is a directory.                              *)
(***************************************************************************)
FileNode(ino, data) == [kind |-> "file", ino |-> ino, data |-> data, target |-> <<>>]
DirNode(ino) == [kind |-> "dir", ino |-> ino, data |-> 0, target |-> <<>>]
LinkNode(ino, target) == [kind |-> "symlink", ino |-> ino, data |-> 0, target |-> target]

\* an inode is named by the step that made it and a number that tells the
\* inodes of one step apart (step 0: it was there before the run)
Ino(stamp, by, k) == <<stamp, by, k>>
NoIno == <<0, "", 0>>
NoNode == [kind |-> "none", ino |-> NoIno, data |-> 0, target |-> <<>>]

\* the elements of a finite set in some fixed order, and the place of one
RECURSIVE SetToSeq(_)
SetToSeq(S) ==
    IF S = {} THEN <<>>
    ELSE LET x == CHOOSE x \in S : TRUE IN <<x>> \o SetToSeq(S \ {x})

RankIn(S, x) == CHOOSE i \in 1..Cardinality(S) : SetToSeq(S)[i] = x

LExists(f, p) == p = <<>> \/ p \in DOMAIN f

MaxLinkDepth == 3

\* os.stat: the node p leads to, following symlinks; "none" when it leads nowhere
RECURSIVE StatFrom(_, _, _)
StatFrom(f, p, fuel) ==
    IF p = <<>> THEN DirNode(NoIno)
    ELSE IF p \notin DOMAIN f THEN NoNode
    ELSE IF f[p].kind = "symlink"
         THEN IF fuel = 0 THEN NoNode
              ELSE StatFrom(f, f[p].target, fuel - 1)
    ELSE f[p]

Stat(f, p) == StatFrom(f, p, MaxLinkDepth)

\* Path.exists(), Path.is_dir(), Path.samefile()
Exists(f, p) == Stat(f, p).kind # "none"
IsDir(f, p) == Stat(f, p).kind = "dir"
SameFile(f, p, q) == Exists(f, p) /\ Exists(f, q) /\ Stat(f, p).ino = Stat(f, q).ino

\* the names listed by os.scandir(d)
Children(f, d) == {p \in DOMAIN f : Parent(p) = d /\ p # <<>>}

\* f restricted to everything outside the tree at p
Without(f, p) == [q \in {r \in DOMAIN f : ~IsPrefix(p, r)} |-> f[q]]

\* p with its leading old replaced by new
Rebase(p, old, new) == new \o SubSeq(p, Len(old) + 1, Len(p))

(***************************************************************************)
(* Names of the example tree of tests/test_extrafiles.py and the glob      *)
(* patterns of its PLUGIN_CONFIG                                           *)
(***************************************************************************)
n_src == <<"s", "r", "c">>
n_dst == <<"d", "s", "t">>
n_single == <<"s", "i", "n", "g", "l", "e">>
n_multiple == <<"m", "u", "l", "t", "i", "p", "l", "e">>
n_CD1 == <<"C", "D", "1">>
n_CD2 == <<"C", "D", "2">>
n_scans == <<"s", "c", "a", "n", "s">>
n_artwork == <<"a", "r", "t", "w", "o", "r", "k">>
n_audio == <<"a", "u", "d", "i", "o">>
n_extras == <<"e", "x", "t", "r", "a", "s">>
file_mp3 == <<"f", "i", "l", "e", ".", "m", "p", "3">>
track_mp3 == <<"t", "r", "a", "c", "k", ".", "m", "p", "3">>
other_mp3 == <<"o", "t", "h", "e", "r", ".", "m", "p", "3">>
file_cue == <<"f", "i", "l", "e", ".", "c", "u", "e">>
file_log == <<"f", "i", "l", "e", ".", "l", "o", "g">>
file_txt == <<"f", "i", "l", "e", ".", "t", "x", "t">>
front_jpg == <<"f", "r", "o", "n", "t", ".", "j", "p", "g">>
back_jpg == <<"b", "a", "c", "k", ".", "j", "p", "g">>
audio_log == <<"a", "u", "d", "i", "o", ".", "l", "o", "g">>
p_log == <<"*", ".", "l", "o", "g">>
p_cue == <<"*", ".", "c", "u", "e">>
p_sub_cue == <<"*", "/", "*", ".", "c", "u", "e">>
p_scans == <<"s", "c", "a", "n", "s", "/">>
p_Artwork == <<"A", "r", "t", "w", "o", "r", "k", "/">>
p_file_any == <<"f", "i", "l", "e", ".", "*">>
p_scans_bare == <<"s", "c", "a", "n", "s">>

\* mediafile.TYPES: the extensions the host's importer handles itself
MediaTypes ==
    {<<"m", "p", "3">>,
     <<"a", "a", "c">>,
     <<"a", "l", "a", "c">>,
     <<"o", "g", "g">>,
     <<"o", "p", "u", "s">>,
     <<"f", "l", "a", "c">>,
     <<"a", "p", "e">>,
     <<"w", "v">>,
     <<"m", "p", "c">>,
     <<"a", "s", "f">>,
     <<"a", "i", "f", "f">>,
     <<"d", "s", "f">>,
     <<"w", "a", "v">>}

(***************************************************************************)
(* Path.glob                                                               *)
(***************************************************************************)
\* fnmatch of one path component; "*" is the only wildcard the patterns of
\* the model use
RECURSIVE FnMatch(_, _)
FnMatch(pat, name) ==
    IF pat = <<>> THEN name = <<>>
    ELSE IF pat[1] = Star
         THEN FnMatch(Tail(pat), name) \/ (name # <<>> /\ FnMatch(pat, Tail(name)))
    ELSE name # <<>> /\ pat[1] = name[1] /\ FnMatch(Tail(pat), Tail(name))

HasMagic(pat) == \E i \in 1..Len(pat) : pat[i] = Star

\* the selectors of pathlib: a component without a wildcard is looked up, a
\* component with one is matched against the directory listing; every
\* component but the last must be a directory, the last one too when the
\* pattern ends with a separator
RECURSIVE GlobSelect(_, _, _, _)
GlobSelect(f, base, parts, dironly) ==
    IF parts = <<>> THEN {base}
    ELSE LET pat == parts[1]
             rest == Tail(parts)
             donly == rest # <<>> \/ dironly
             hits == IF HasMagic(pat)
                     THEN {c \in Children(f, base) :
                              (donly => IsDir(f, c)) /\ FnMatch(pat, Name(c))}
                     ELSE LET c == base \o <<pat>>
                          IN IF (IF donly THEN IsDir(f, c) ELSE Exists(f, c))
                             THEN {c} ELSE {}
         IN UNION {GlobSelect(f, c, rest, dironly) : c \in hits}

\* Path.glob raises on a pattern with no component ("", ".") and on a
\* pattern that is not relative
GlobRaises(pattern) ==
    \/ pattern = <<>>
    \/ ParsePath(pattern) = <<>>
    \/ pattern[1] = Slash

\* source.glob(pattern): the paths found below source
Glob(f, source, pattern) ==
    IF ~IsDir(f, source) THEN {}
    ELSE GlobSelect(f, source, ParsePath(pattern), pattern[Len(pattern)] = Slash)

(***************************************************************************)
(* The configuration: "patterns" maps a category to a list of patterns or  *)
(* to one bare string, "paths" maps a category to a template               *)
(***************************************************************************)
PatList(items) == [isstr |-> FALSE, items |-> items, str |-> <<>>]
PatStr(s) == [isstr |-> TRUE, items |-> <<>>, str |-> s]

\* what "for pattern in patterns" iterates over: the elements of a list, the
\* characters of a string (rebinding the name inside the loop does not change
\* the iteration)
IterPatterns(patterns) ==
    IF patterns.isstr
    THEN [i \in 1..Len(patterns.str) |-> <<patterns.str[i]>>]
    ELSE patterns.items

\* the (category, pattern) pairs in the order the two loops visit them
RECURSIVE PatternSteps(_)
PatternSteps(table) ==
    IF table = <<>> THEN <<>>
    ELSE LET category == table[1][1]
             its == IterPatterns(table[1][2])
         IN [i \in 1..Len(its) |-> <<category, its[i]>>] \o PatternSteps(Tail(table))

\* the media check of match_patterns: the suffix without its dot is a
\* media type
IsMediaPath(path) ==
    LET ext == SuffixOf(Name(path))
    IN Len(ext) > 1 /\ SubSeq(ext, 2, Len(ext)) \in MediaTypes

\* the paths of one glob that match_patterns yields
Yielded(path) ==
    /\ PathStr(path) \notin {<<Dot>>, <<Dot, Dot>>}
    /\ ~IsMediaPath(path)

\* match_patterns run to its end on an unchanging filesystem, as
\* set(match_patterns(source, skip)) runs it: what it yields, the skip set
\* after it, and whether a glob raised
match_patterns(f, table, source, skip) ==
    IF source \in skip
    THEN [yielded |-> {}, skip |-> skip, raised |-> FALSE]
    ELSE LET steps == PatternSteps(table)
             bad == {i \in 1..Len(steps) : GlobRaises(steps[i][2])}
             stop == IF bad = {} THEN Len(steps) + 1
                     ELSE CHOOSE i \in bad : \A j \in bad : i <= j
         IN [yielded |-> UNION {{<<path, steps[i][1]>> :
                                    path \in {q \in Glob(f, source, steps[i][2]) : Yielded(q)}} :
                                i \in 1..(stop - 1)},
             skip |-> IF bad = {} THEN skip \cup {source} ELSE skip,
             raised |-> bad # {}]

(***************************************************************************)
(* get_destination: sanitize the relative path, format the fields, pick    *)
(* the template, substitute, append the suffix                             *)
(***************************************************************************)
Underscore == "_"
ReservedChars == {"<", ">", ":", "\"", "?", "*", "|", "\\"}

\* beets.util.sanitize_path on one component: CHAR_REPLACE applied in order
SanitizeComponent(c) ==
    LET r1 == [i \in 1..Len(c) |-> IF c[i] \in ReservedChars THEN Underscore ELSE c[i]]
        r2 == IF r1 # <<>> /\ r1[1] = Dot THEN <<Underscore>> \o Tail(r1) ELSE r1
        r3 == IF r2 # <<>> /\ r2[Len(r2)] = Dot
              THEN SubSeq(r2, 1, Len(r2) - 1) \o <<Underscore>> ELSE r2
    IN r3

\* beets.util.sanitize_path(path) of a relative path string
sanitize_path(s) ==
    LET comps == SelectNonEmpty(Split(s, Slash))
    IN Join([i \in 1..Len(comps) |-> SanitizeComponent(comps[i])], Slash)

\* a template is a sequence of tokens: a field reference or literal text
Var(name) == [var |-> TRUE, name |-> name, text |-> <<>>]
Lit(text) == [var |-> FALSE, name |-> "", text |-> text]

\* beets.util.functemplate.Template("$albumpath/$filename")
DefaultTemplate == <<Var("albumpath"), Lit(<<Slash>>), Var("filename")>>

\* the mapping without the replacement of the separator
FormattedGet_raw(model, key) == model[key]

\* FormattedExtraFileMapping.__getitem__ with for_path=True: albumpath is
\* returned as it is, in every other value the path separator is replaced
\* (path_sep_replace, "_")
FormattedGet(model, key) ==
    IF key = "albumpath" THEN model[key]
    ELSE ReplaceChar(model[key], Slash, Underscore)

\* Template.substitute(mapping)
RECURSIVE Substitute(_, _)
Substitute(template, model) ==
    IF template = <<>> THEN <<>>
    ELSE (IF template[1].var THEN FormattedGet(model, template[1].name)
          ELSE template[1].text) \o Substitute(Tail(template), model)

\* beets.ui.get_path_formats: the "paths" section as (query, template) pairs,
\* with the two shorthand keys expanded
PathFormatQuery(key) ==
    IF key = "comp" THEN "comp:true"
    ELSE IF key = "singleton" THEN "singleton:true"
    ELSE key

get_path_formats(paths) ==
    [i \in 1..Len(paths) |-> <<PathFormatQuery(paths[i][1]), paths[i][2]>>]

\* next((fmt for query, fmt in path_formats if query == category), default)
PickTemplate(path_formats, category) ==
    LET hits == {i \in 1..Len(path_formats) : path_formats[i][1] = category}
    IN IF hits = {} THEN DefaultTemplate
       ELSE path_formats[CHOOSE i \in hits : \A j \in hits : i <= j][2]

\* get_destination without the suffix appended
get_destination_nosuffix(path_formats, path, category, meta) ==
    LET dest_path == ParsePath(sanitize_path(path))
        model == [artist |-> meta.artist,
                  albumartist |-> meta.albumartist,
                  album |-> meta.album,
                  albumpath |-> meta.albumpath,
                  basename |-> Name(dest_path),
                  filename |-> RelStr(Parent(dest_path) \o <<StemOf(Name(dest_path))>>)]
    IN ParsePath(Substitute(PickTemplate(path_formats, category), model))

\* get_destination(path, category, meta): path is the relative path string
get_destination(path_formats, path, category, meta) ==
    LET dest_path == ParsePath(sanitize_path(path))
        model == [artist |-> meta.artist,
                  albumartist |-> meta.albumartist,
                  album |-> meta.album,
                  albumpath |-> meta.albumpath,
                  basename |-> Name(dest_path),
                  filename |-> RelStr(Parent(dest_path) \o <<StemOf(Name(dest_path))>>)]
    IN ParsePath(Substitute(PickTemplate(path_formats, category), model)
                 \o SuffixOf(Name(dest_path)))

\* os.path.normpath(os.path.relpath(path, start=source)) for path below source
RelPath(path, source) == RelStr(SubSeq(path, Len(source) + 1, Len(path)))

(***************************************************************************)
(* beets.util filesystem helpers.  env.denied is the set of directories    *)
(* in which nothing can be created (EACCES), env.reflink tells whether the *)
(* filesystem supports copy-on-write clones.  Each helper returns the      *)
(* filesystem after it and whether it succeeded; stamp numbers the step    *)
(* that runs it.                                                           *)
(***************************************************************************)
Digits == <<"0", "1", "2", "3", "4", "5", "6", "7", "8", "9">>
DigitValue(c) == CHOOSE d \in 0..9 : Digits[d + 1] = c
IsDigit(c) == \E d \in 0..9 : Digits[d + 1] = c

RECURSIVE Decimal(_)
Decimal(n) == IF n < 10 THEN <<Digits[n + 1]>>
              ELSE Decimal(n \div 10) \o <<Digits[(n % 10) + 1]>>

\* os.path.splitext of a final component: <<root, ext>>
SplitExt(name) ==
    LET i == RFind(name, Dot)
    IN IF i > 1 /\ \E j \in 1..(i - 1) : name[j] # Dot
       THEN <<SubSeq(name, 1, i - 1), SubSeq(name, i, Len(name))>>
       ELSE <<name, <<>>>>

\* beets.util.unique_path: the path itself when nothing is there, else the
\* first free base.N.ext
unique_path(f, path) ==
    IF ~Exists(f, path) THEN path
    ELSE LET se == SplitExt(Name(path))
             b == se[1]
             k == RFind(b, Dot)
             \* re.search(r"\.(\d)+$", base): group 1 is the last digit
             numbered == k > 0 /\ k < Len(b) /\ \A j \in (k + 1)..Len(b) : IsDigit(b[j])
             num == IF numbered THEN DigitValue(b[Len(b)]) ELSE 0
             base == IF numbered THEN SubSeq(b, 1, k - 1) ELSE b
             cand(n) == Parent(path) \o <<base \o <<Dot>> \o Decimal(n) \o se[2]>>
             free == {n \in (num + 1)..(num + Cardinality(DOMAIN f) + 1) : ~Exists(f, cand(n))}
         IN cand(CHOOSE n \in free : \A m \in free : n <= m)

\* whether a new entry can be created at p
CanCreate(f, env, p) ==
    /\ ~LExists(f, p)
    /\ IsDir(f, Parent(p))
    /\ Parent(p) \notin env.denied

\* beets.util.mkdirall(path): os.mkdir of every ancestor that is no directory;
\* the first mkdir that fails raises FilesystemError, the directories made
\* before it stay
RECURSIVE MkdirEach(_, _, _, _)
MkdirEach(f, env, ancestors, stamp) ==
    IF ancestors = <<>> THEN [fs |-> f, ok |-> TRUE]
    ELSE LET a == ancestors[1]
         IN IF IsDir(f, a) THEN MkdirEach(f, env, Tail(ancestors), stamp)
            ELSE IF ~CanCreate(f, env, a) THEN [fs |-> f, ok |-> FALSE]
            ELSE MkdirEach((a :> DirNode(Ino(stamp, "mkdirall", Len(a)))) @@ f, env, Tail(ancestors), stamp)

mkdirall(f, env, path, stamp) == MkdirEach(f, env, Ancestry(path), stamp)

(***************************************************************************)
(* The five primitives (beets.util.copy, link, hardlink, reflink, move)    *)
(* and _handle_file                                                        *)
(***************************************************************************)
COPY == "COPY"
LINK == "LINK"
HARDLINK == "HARDLINK"
REFLINK == "REFLINK"
MOVE == "MOVE"

\* the node a primitive other than move leaves for the file at path, k
\* numbering the new inode
NewNode(kind, f, path, k, stamp) ==
    IF kind = LINK THEN LinkNode(Ino(stamp, kind, k), path)
    ELSE IF kind = HARDLINK THEN f[path]
    ELSE FileNode(Ino(stamp, kind, k), Stat(f, path).data)

\* where writing to dest puts the data: through a dangling symlink
WriteTarget(f, dest) ==
    IF dest \in DOMAIN f /\ f[dest].kind = "symlink" THEN f[dest].target ELSE dest

\* copy_function(path, dest) on a single file: nothing to do for the same
\* file, FilesystemError when dest exists or the system call fails
Primitive(kind, f, env, path, dest, stamp) ==
    IF SameFile(f, path, dest) THEN [fs |-> f, ok |-> TRUE]
    ELSE IF Exists(f, dest) THEN [fs |-> f, ok |-> FALSE]
    ELSE IF kind = MOVE
         THEN IF IsDir(f, Parent(dest)) /\ Parent(dest) \notin env.denied
              THEN [fs |-> (dest :> f[path]) @@ Without(f, path), ok |-> TRUE]
              ELSE [fs |-> f, ok |-> FALSE]
    ELSE IF kind = COPY
         THEN LET target == WriteTarget(f, dest)
              IN IF CanCreate(f, env, target)
                 THEN [fs |-> (target :> NewNode(kind, f, path, 0, stamp)) @@ f,
                       ok |-> TRUE]
                 ELSE [fs |-> f, ok |-> FALSE]
    ELSE IF CanCreate(f, env, dest) /\ (kind = REFLINK => env.reflink)
         THEN [fs |-> (dest :> NewNode(kind, f, path, 0, stamp)) @@ f, ok |-> TRUE]
         ELSE [fs |-> f, ok |-> FALSE]

\* the paths of the tree at path, path itself included
Tree(f, path) == {q \in DOMAIN f : IsPrefix(path, q)}

\* shutil.move(path, dest) of a directory: the tree is renamed
MoveTree(f, env, path, dest) ==
    IF CanCreate(f, env, dest) /\ ~IsPrefix(path, dest)
    THEN [fs |-> [q \in {Rebase(r, path, dest) : r \in Tree(f, path)}
                     |-> f[Rebase(q, dest, path)]] @@ Without(f, path),
          ok |-> TRUE]
    ELSE [fs |-> f, ok |-> FALSE]

\* shutil.copytree(path, dest, copy_function): dest is made, then every
\* directory below path is made and copy_function is applied to every file;
\* when copy_function raises (a filesystem without reflink) the walk stops
\* there, leaving the directory made so far
CopyTree(kind, f, env, path, dest, stamp) ==
    IF ~CanCreate(f, env, dest) THEN [fs |-> f, ok |-> FALSE]
    ELSE IF kind = REFLINK /\ ~env.reflink /\ \E r \in Tree(f, path) : f[r].kind # "dir"
         THEN [fs |-> (dest :> DirNode(Ino(stamp, kind, 0))) @@ f, ok |-> FALSE]
    ELSE [fs |-> [q \in {Rebase(r, path, dest) : r \in Tree(f, path)} |->
                     LET r == Rebase(q, dest, path)
                         k == RankIn(Tree(f, path), r)
                     IN IF f[r].kind = "dir" THEN DirNode(Ino(stamp, kind, k))
                        ELSE NewNode(kind, f, r, k, stamp)] @@ f,
          ok |-> TRUE]

\* _handle_file(path, dest, operation): "Done", "SameFile" (nothing to do) or
\* "Failed" (FilesystemError raised to the caller)
handle_file(kind, f, env, path, dest, stamp) ==
    IF Exists(f, dest)
    THEN [fs |-> f, outcome |-> IF SameFile(f, path, dest) THEN "SameFile" ELSE "Failed"]
    ELSE LET r == IF IsDir(f, path)
                  THEN IF kind = MOVE THEN MoveTree(f, env, path, dest)
                       ELSE CopyTree(kind, f, env, path, dest, stamp)
                  ELSE Primitive(kind, f, env, path, dest, stamp)
         IN [fs |-> r.fs, outcome |-> IF r.ok THEN "Done" ELSE "Failed"]

\* process_items skipping a present destination only when it is another
\* file than the source
process_entry_samefile_passes(kind, f, env, source, destination, stamp) ==
    IF ~Exists(f, source)
    THEN [fs |-> f, outcome |-> "SkippedMissing", dest_path |-> destination]
    ELSE IF Exists(f, destination) /\ ~SameFile(f, source, destination)
    THEN [fs |-> f, outcome |-> "SkippedPresent", dest_path |-> destination]
    ELSE LET dest_path == unique_path(f, destination)
             made == mkdirall(f, env, dest_path, stamp)
         IN IF ~made.ok
            THEN [fs |-> made.fs, outcome |-> "Raised", dest_path |-> dest_path]
            ELSE LET h == handle_file(kind, made.fs, env, source, dest_path, stamp)
                 IN [fs |-> h.fs, outcome |-> h.outcome, dest_path |-> dest_path]

\* process_items without the check of the destination
process_entry_unchecked(kind, f, env, source, destination, stamp) ==
    IF ~Exists(f, source)
    THEN [fs |-> f, outcome |-> "SkippedMissing", dest_path |-> destination]
    ELSE LET dest_path == unique_path(f, destination)
             made == mkdirall(f, env, dest_path, stamp)
         IN IF ~made.ok
            THEN [fs |-> made.fs, outcome |-> "Raised", dest_path |-> dest_path]
            ELSE LET h == handle_file(kind, made.fs, env, source, dest_path, stamp)
                 IN [fs |-> h.fs, outcome |-> h.outcome, dest_path |-> dest_path]

\* the body of the loop of process_items for one (source, destination):
\* "SkippedMissing", "SkippedPresent", "Raised" (mkdirall's FilesystemError is
\* raised outside the try and leaves process_items), or what _handle_file did
process_entry(kind, f, env, source, destination, stamp) ==
    IF ~Exists(f, source)
    THEN [fs |-> f, outcome |-> "SkippedMissing", dest_path |-> destination]
    ELSE IF Exists(f, destination)
    THEN [fs |-> f, outcome |-> "SkippedPresent", dest_path |-> destination]
    ELSE LET dest_path == unique_path(f, destination)
             made == mkdirall(f, env, dest_path, stamp)
         IN IF ~made.ok
            THEN [fs |-> made.fs, outcome |-> "Raised", dest_path |-> dest_path]
            ELSE LET h == handle_file(kind, made.fs, env, source, dest_path, stamp)
                 IN [fs |-> h.fs, outcome |-> h.outcome, dest_path |-> dest_path]

(***************************************************************************)
(* gather_files: grouping by (albumartist or artist, album) and the common *)
(* directories of a group                                                  *)
(***************************************************************************)
\* the characters of the item fields, in code-point order
Alphabet == <<"1", "2", "A", "B", "M", "N", "S", "e", "n", "o">>
Ord(c) == CHOOSE i \in 1..Len(Alphabet) : Alphabet[i] = c

\* a < b for strings, as Python compares them
RECURSIVE StrLess(_, _)
StrLess(a, b) ==
    IF b = <<>> THEN FALSE
    ELSE IF a = <<>> THEN TRUE
    ELSE IF a[1] = b[1] THEN StrLess(Tail(a), Tail(b))
    ELSE Ord(a[1]) < Ord(b[1])

\* x or y on strings: the empty string is falsy
Or(x, y) == IF x # <<>> THEN x ELSE y

\* gather_files putting every record into one group
GroupKey_none(itemop) == <<<<>>, <<>>>>

\* gather_files grouping by the artist alone
GroupKey_artist(itemop) == <<itemop.item.artist, itemop.item.album>>

\* group(itemop): the sort and grouping key
GroupKey(itemop) == <<Or(itemop.item.albumartist, itemop.item.artist), itemop.item.album>>

\* k1 < k2 for keys, as Python compares tuples
KeyLess(k1, k2) == StrLess(k1[1], k2[1]) \/ (k1[1] = k2[1] /\ StrLess(k1[2], k2[2]))

\* sorted(...) followed by itertools.groupby: one group per key, in key order
RECURSIVE GroupsOf(_)
GroupsOf(itemops) ==
    IF itemops = {} THEN <<>>
    ELSE LET keys == {GroupKey(t) : t \in itemops}
             least == CHOOSE k \in keys : \A j \in keys : j = k \/ KeyLess(k, j)
             members == {t \in itemops : GroupKey(t) = least}
         IN <<members>> \o GroupsOf(itemops \ members)

\* the directory of one of the paths taken for the common path
CommonPath_first(paths) == CHOOSE q \in paths : TRUE

\* os.path.commonpath: the longest common prefix, by components
CommonPath(paths) ==
    LET any == CHOOSE q \in paths : TRUE
        common == {n \in 0..Len(any) : \A q \in paths : IsPrefix(SubSeq(any, 1, n), q)}
    IN SubSeq(any, 1, CHOOSE n \in common : \A m \in common : m <= n)

NoneStr == <<"N", "o", "n", "e">>

\* what gather_files derives from one group, rep being its first member
GroupContext(members, rep) ==
    LET source == CommonPath({Parent(t.source) : t \in members})
        destination == CommonPath({Parent(t.destination) : t \in members})
    IN [source |-> source,
        destination |-> destination,
        meta |-> [artist |-> Or(rep.item.artist, NoneStr),
                  albumartist |-> Or(rep.item.albumartist, NoneStr),
                  album |-> Or(rep.item.album, NoneStr),
                  albumpath |-> PathStr(destination)]]

\* the (path, destpath) pair gather_files yields for a match
DestinationOf(path_formats, ctx, path, category) ==
    get_destination(path_formats, RelPath(path, ctx.source), category, ctx.meta)

(***************************************************************************)
(* The example world: the tree of the tests, three transferred tracks,     *)
(* the configurations and the environments                                 *)
(***************************************************************************)
SrcSingle == <<n_src, n_single>>
SrcMultiple == <<n_src, n_multiple>>
DstSingle == <<n_dst, n_single>>
DstMultiple == <<n_dst, n_multiple>>

BaseDirs ==
    {<<n_src>>, <<n_dst>>, SrcSingle, SrcMultiple, DstSingle, DstMultiple,
     SrcSingle \o <<n_scans>>, SrcMultiple \o <<n_CD1>>, SrcMultiple \o <<n_CD2>>}

BaseFiles ==
    {SrcSingle \o <<file_mp3>>, SrcSingle \o <<file_cue>>,
     SrcSingle \o <<file_txt>>, SrcSingle \o <<file_log>>,
     SrcSingle \o <<n_scans, front_jpg>>, SrcSingle \o <<n_scans, back_jpg>>,
     SrcMultiple \o <<n_CD1, file_cue>>, SrcMultiple \o <<n_CD2, file_cue>>,
     SrcMultiple \o <<file_log>>}

\* files that may be at a destination before the run
PreExisting == {DstSingle \o <<file_cue>>, DstMultiple \o <<audio_log>>}

\* the filesystem before the run: the tree and the files of pre.  The
\* audio.log at the destination is a hard link to file.log of the two-disc
\* album (left by an earlier import), the other files are files of their own
TreeOf(pre) ==
    LET all == BaseDirs \cup BaseFiles \cup PreExisting
        origin(q) == IF q = DstMultiple \o <<audio_log>> THEN SrcMultiple \o <<file_log>>
                     ELSE q
    IN [q \in BaseDirs \cup BaseFiles \cup pre |->
           IF q \in BaseDirs THEN DirNode(Ino(0, "", RankIn(all, q)))
           ELSE FileNode(Ino(0, "", RankIn(all, origin(q))), RankIn(all, origin(q)))]

str_A == <<"A">>
str_B == <<"B">>
str_S == <<"S">>
str_M == <<"M">>

Item(id, artist, albumartist, album) ==
    [id |-> id, artist |-> artist, albumartist |-> albumartist, album |-> album]

ItemOp(item, source, destination) ==
    [item |-> item, source |-> source, destination |-> destination]

\* the (item, source, destination) triples the host may notify: the track
\* of the single-directory album and the two tracks of the two-disc album
Transfers ==
    {ItemOp(Item(1, str_A, <<>>, str_S),
            SrcSingle \o <<file_mp3>>, DstSingle \o <<track_mp3>>),
     ItemOp(Item(2, str_A, str_B, str_M),
            SrcMultiple \o <<n_CD1, file_mp3>>, DstMultiple \o <<track_mp3>>),
     ItemOp(Item(3, str_B, str_B, str_M),
            SrcMultiple \o <<n_CD2, file_mp3>>, DstMultiple \o <<other_mp3>>)}

TemplateIn(name) == <<Var("albumpath"), Lit(<<Slash>> \o name)>>

\* PLUGIN_CONFIG of tests/test_extrafiles.py
TestConfig ==
    [patterns |-> <<<<"log", PatList(<<p_log>>)>>,
                    <<"cue", PatList(<<p_cue, p_sub_cue>>)>>,
                    <<"artwork", PatList(<<p_scans, p_Artwork>>)>>>>,
     paths |-> <<<<"artwork", TemplateIn(n_artwork)>>,
                 <<"log", TemplateIn(n_audio)>>>>]

\* every cue sheet is named after one template, and a second category takes
\* every file.* into a subdirectory
DiscConfig ==
    [patterns |-> <<<<"cue", PatList(<<p_cue, p_sub_cue>>)>>,
                    <<"any", PatList(<<p_file_any>>)>>>>,
     paths |-> <<<<"cue", TemplateIn(n_audio)>>,
                 <<"any", <<Var("albumpath"), Lit(<<Slash>> \o n_extras \o <<Slash>>),
                             Var("filename")>>>>>>]

\* a category given as one bare string, without and with a dot in it
BareConfig ==
    [patterns |-> <<<<"artwork", PatStr(p_scans_bare)>>,
                    <<"log", PatList(<<p_log>>)>>>>,
     paths |-> <<>>]

BareDotConfig ==
    [patterns |-> <<<<"cue", PatStr(p_cue)>>>>,
     paths |-> <<>>]

Configs == {TestConfig, DiscConfig, BareConfig, BareDotConfig}

\* a healthy filesystem, and one without reflink support whose album
\* directory dst/single cannot be written to
Envs ==
    {[denied |-> {}, reflink |-> TRUE],
     [denied |-> {DstSingle}, reflink |-> FALSE]}

Kinds == {COPY, LINK, HARDLINK, REFLINK, MOVE}

\* on_cli_exit with the moved items handled first
Batches_move_first ==
    <<[items |-> MOVE, action |-> MOVE],
      [items |-> COPY, action |-> COPY],
      [items |-> LINK, action |-> LINK],
      [items |-> HARDLINK, action |-> HARDLINK],
      [items |-> REFLINK, action |-> REFLINK]>>

\* the five batches of on_cli_exit in their order: the set gather_files is
\* given and the operation process_items applies
Batches ==
    <<[items |-> COPY, action |-> COPY],
      [items |-> LINK, action |-> LINK],
      [items |-> HARDLINK, action |-> HARDLINK],
      [items |-> REFLINK, action |-> REFLINK],
      [items |-> MOVE, action |-> MOVE]>>

MaxEvents == 2
MaxRuns == 2
MaxCalls == 2

\* what the host passes to a listener: the item and the two paths as strings
Notifications ==
    {[item |-> t.item, source |-> PathStr(t.source), destination |-> PathStr(t.destination)] :
        t \in Transfers}

\* the directories match_patterns is called on directly
ScanDirs == {SrcSingle, SrcMultiple, SrcMultiple \o <<n_CD1>>, DstSingle}

(***************************************************************************)
(* The plugin                                                              *)
(*   cfg, env   configuration and environment, fixed for a behaviour       *)
(*   pre        the files at the destinations before the first run         *)
(*   fs         the filesystem                                             *)
(*   acc        _copied_items, _linked_items, ... by operation kind        *)
(*   scanned    _scanned_paths                                             *)
(*   pc         "idle", inside on_cli_exit ("group", "entry"),             *)
(*              "done" after it returned, "raised" after an exception left *)
(*              it (exc names the exception)                               *)
(*   pass       the batch on_cli_exit is in, an index of Batches           *)
(*   groups     the groups gather_files has still to visit in this batch   *)
(*   cur        source, destination and meta of the group being visited    *)
(*   pi         the position in the (category, pattern) loops              *)
(*   todo       the glob results of the current pattern not yet visited    *)
(*   nops, last the number of entries process_items has handled, and the   *)
(*              last of them                                               *)
(*   runs       the number of on_cli_exit calls                            *)
(*   scanlog    the calls of match_patterns by gather_files: the source    *)
(*              and whether it was globbed (it was not in the skip set)    *)
(*   kindlog    the operations of the entries handled in this run          *)
(*   calls      the direct calls of match_patterns                         *)
(***************************************************************************)
VARIABLES cfg, env, pre, fs, acc, scanned, pc, pass, groups, cur, pi, todo,
          nops, last, runs, exc, scanlog, kindlog, calls

vars == <<cfg, env, pre, fs, acc, scanned, pc, pass, groups, cur, pi, todo,
          nops, last, runs, exc, scanlog, kindlog, calls>>

NoCtx ==
    [source |-> <<>>, destination |-> <<>>,
     meta |-> [artist |-> <<>>, albumartist |-> <<>>, album |-> <<>>, albumpath |-> <<>>]]

NoEntry ==
    [kind |-> "", from |-> "", source |-> <<>>, destination |-> <<>>, dest_path |-> <<>>,
     category |-> "", outcome |-> "", run |-> 0]

\* ExtraFilesPlugin.__init__ on one of the example worlds
Init ==
    /\ cfg \in Configs
    /\ env \in Envs
    /\ pre \in {{}, PreExisting}
    /\ fs = TreeOf(pre)
    /\ acc = [k \in Kinds |-> {}]
    /\ scanned = {}
    /\ pc = "idle"
    /\ pass = 0
    /\ groups = <<>>
    /\ cur = NoCtx
    /\ pi = 0
    /\ todo = {}
    /\ nops = 0
    /\ last = NoEntry
    /\ runs = 0
    /\ exc = ""
    /\ scanlog = <<>>
    /\ kindlog = <<>>
    /\ calls = <<>>

TotalEvents == Cardinality({<<k, t>> \in Kinds \X Transfers : t \in acc[k]})

\* the body the five listeners share: the paths are decoded and the triple
\* is added to the set of the listener's kind
AddItem(kind, n) ==
    [acc EXCEPT ![kind] = @ \cup {ItemOp(n.item, ParsePath(n.source), ParsePath(n.destination))}]

Listener(kind) ==
    /\ pc \in {"idle", "done"}
    /\ \E n \in Notifications :
          /\ TotalEvents < MaxEvents
             \/ ItemOp(n.item, ParsePath(n.source), ParsePath(n.destination)) \in acc[kind]
          /\ acc' = AddItem(kind, n)
    /\ pc' = "idle"
    /\ UNCHANGED <<cfg, env, pre, fs, scanned, pass, groups, cur, pi, todo,
                   nops, last, runs, exc, scanlog, kindlog, calls>>

\* the listener of item_moved adding to the set of the copied items
on_item_moved_as_copied == Listener(COPY)

on_item_moved == Listener(MOVE)
on_item_copied == Listener(COPY)
on_item_linked == Listener(LINK)
on_item_hardlinked == Listener(HARDLINK)
on_item_reflinked == Listener(REFLINK)

\* files = self.gather_files(<the set of batch k>): the generator's groups
GatherPass(k) == GroupsOf(acc[Batches[k].items])

\* on_cli_exit starting every call with an empty set of scanned paths
on_cli_exit_fresh ==
    /\ pc \in {"idle", "done"}
    /\ runs < MaxRuns
    /\ runs' = runs + 1
    /\ pc' = "group"
    /\ pass' = 1
    /\ groups' = GatherPass(1)
    /\ kindlog' = <<>>
    /\ scanned' = {}
    /\ UNCHANGED <<cfg, env, pre, fs, acc, cur, pi, todo, nops, last, exc, scanlog, calls>>

\* on_cli_exit is called: the first batch begins
on_cli_exit ==
    /\ pc \in {"idle", "done"}
    /\ runs < MaxRuns
    /\ runs' = runs + 1
    /\ pc' = "group"
    /\ pass' = 1
    /\ groups' = GatherPass(1)
    /\ kindlog' = <<>>
    /\ UNCHANGED <<cfg, env, pre, fs, acc, scanned, cur, pi, todo, nops, last, exc, scanlog, calls>>

\* a batch is exhausted: the next one begins
next_pass ==
    /\ pc = "group"
    /\ groups = <<>>
    /\ pass < Len(Batches)
    /\ pass' = pass + 1
    /\ groups' = GatherPass(pass + 1)
    /\ UNCHANGED <<cfg, env, pre, fs, acc, scanned, pc, cur, pi, todo, nops, last, runs, exc,
                   scanlog, kindlog, calls>>

\* on_cli_exit returning with the five sets cleared
exit_return_drain ==
    /\ pc = "group"
    /\ groups = <<>>
    /\ pass = Len(Batches)
    /\ pc' = "done"
    /\ acc' = [k \in Kinds |-> {}]
    /\ UNCHANGED <<cfg, env, pre, fs, scanned, pass, groups, cur, pi, todo, nops, last, runs,
                   exc, scanlog, kindlog, calls>>

\* the last batch is exhausted: on_cli_exit returns
exit_return ==
    /\ pc = "group"
    /\ groups = <<>>
    /\ pass = Len(Batches)
    /\ pc' = "done"
    /\ UNCHANGED <<cfg, env, pre, fs, acc, scanned, pass, groups, cur, pi, todo, nops, last, runs,
                   exc, scanlog, kindlog, calls>>

\* gather_files calling match_patterns without the skip set
group_begin_noskip ==
    /\ pc = "group"
    /\ groups # <<>>
    /\ \E rep \in Head(groups) : cur' = GroupContext(Head(groups), rep)
    /\ pc' = "entry"
    /\ pi' = 0
    /\ scanlog' = Append(scanlog, [source |-> cur'.source, globbed |-> TRUE])
    /\ UNCHANGED <<cfg, env, pre, fs, acc, scanned, pass, groups, todo, nops, last, runs, exc,
                   kindlog, calls>>

\* gather_files reaches the next group and calls match_patterns on its
\* source: a source in the skip set yields nothing
group_begin ==
    /\ pc = "group"
    /\ groups # <<>>
    /\ \E rep \in Head(groups) : cur' = GroupContext(Head(groups), rep)
    /\ IF cur'.source \in scanned
       THEN /\ groups' = Tail(groups)
            /\ scanlog' = Append(scanlog, [source |-> cur'.source, globbed |-> FALSE])
            /\ UNCHANGED <<pc, pi>>
       ELSE /\ pc' = "entry"
            /\ pi' = 0
            /\ scanlog' = Append(scanlog, [source |-> cur'.source, globbed |-> TRUE])
            /\ UNCHANGED groups
    /\ UNCHANGED <<cfg, env, pre, fs, acc, scanned, pass, todo, nops, last, runs, exc, kindlog, calls>>

\* match_patterns matching a pattern against the tree as it was before any
\* file operation
glob_pattern_stale ==
    /\ pc = "entry"
    /\ todo = {}
    /\ pi < Len(PatternSteps(cfg.patterns))
    /\ ~GlobRaises(PatternSteps(cfg.patterns)[pi + 1][2])
    /\ pi' = pi + 1
    /\ todo' = Glob(TreeOf(pre), cur.source, PatternSteps(cfg.patterns)[pi + 1][2])
    /\ UNCHANGED <<cfg, env, pre, fs, acc, scanned, pc, pass, groups, cur, nops, last, runs, exc,
                   scanlog, kindlog, calls>>

\* the glob of the current pattern is exhausted: source.glob(pattern) for the
\* next (category, pattern)
glob_pattern ==
    /\ pc = "entry"
    /\ todo = {}
    /\ pi < Len(PatternSteps(cfg.patterns))
    /\ ~GlobRaises(PatternSteps(cfg.patterns)[pi + 1][2])
    /\ pi' = pi + 1
    /\ todo' = Glob(fs, cur.source, PatternSteps(cfg.patterns)[pi + 1][2])
    /\ UNCHANGED <<cfg, env, pre, fs, acc, scanned, pc, pass, groups, cur, nops, last, runs, exc,
                   scanlog, kindlog, calls>>

\* match_patterns adding the source to the skip set although a glob raised
glob_raises_marks ==
    /\ pc = "entry"
    /\ todo = {}
    /\ pi < Len(PatternSteps(cfg.patterns))
    /\ GlobRaises(PatternSteps(cfg.patterns)[pi + 1][2])
    /\ pc' = "raised"
    /\ exc' = "IndexError"
    /\ scanned' = scanned \cup {cur.source}
    /\ UNCHANGED <<cfg, env, pre, fs, acc, pass, groups, cur, pi, todo, nops, last, runs,
                   scanlog, kindlog, calls>>

\* source.glob(pattern) raises: nothing catches it, on_cli_exit is left
glob_raises ==
    /\ pc = "entry"
    /\ todo = {}
    /\ pi < Len(PatternSteps(cfg.patterns))
    /\ GlobRaises(PatternSteps(cfg.patterns)[pi + 1][2])
    /\ pc' = "raised"
    /\ exc' = "IndexError"
    /\ UNCHANGED <<cfg, env, pre, fs, acc, scanned, pass, groups, cur, pi, todo, nops, last, runs,
                   scanlog, kindlog, calls>>

\* match_patterns without skip.add(source)
scan_end_forget ==
    /\ pc = "entry"
    /\ todo = {}
    /\ pi = Len(PatternSteps(cfg.patterns))
    /\ groups' = Tail(groups)
    /\ pc' = "group"
    /\ UNCHANGED <<cfg, env, pre, fs, acc, scanned, pass, cur, pi, todo, nops, last, runs, exc,
                   scanlog, kindlog, calls>>

\* the loops of match_patterns are exhausted: skip.add(source)
scan_end ==
    /\ pc = "entry"
    /\ todo = {}
    /\ pi = Len(PatternSteps(cfg.patterns))
    /\ scanned' = scanned \cup {cur.source}
    /\ groups' = Tail(groups)
    /\ pc' = "group"
    /\ UNCHANGED <<cfg, env, pre, fs, acc, pass, cur, pi, todo, nops, last, runs, exc, scanlog, kindlog, calls>>

\* a glob result match_patterns does not yield
entry_skip ==
    /\ pc = "entry"
    /\ \E path \in todo :
          /\ ~Yielded(path)
          /\ todo' = todo \ {path}
    /\ UNCHANGED <<cfg, env, pre, fs, acc, scanned, pc, pass, groups, cur, pi, nops, last, runs, exc,
                   scanlog, kindlog, calls>>

\* a glob result is yielded, gather_files resolves its destination and
\* process_items handles the pair
entry_process ==
    /\ pc = "entry"
    /\ \E path \in todo :
          /\ Yielded(path)
          /\ LET category == PatternSteps(cfg.patterns)[pi][1]
                 destination == DestinationOf(get_path_formats(cfg.paths), cur, path, category)
                 r == process_entry(Batches[pass].action, fs, env, path, destination, nops + 1)
             IN /\ fs' = r.fs
                /\ last' = [kind |-> Batches[pass].action, from |-> Batches[pass].items,
                            source |-> path, destination |-> destination,
                            dest_path |-> r.dest_path, category |-> category,
                            outcome |-> r.outcome, run |-> runs]
                /\ IF r.outcome = "Raised"
                   THEN pc' = "raised" /\ exc' = "FilesystemError"
                   ELSE UNCHANGED <<pc, exc>>
          /\ todo' = todo \ {path}
    /\ nops' = nops + 1
    /\ kindlog' = Append(kindlog, Batches[pass].action)
    /\ UNCHANGED <<cfg, env, pre, acc, scanned, pass, groups, cur, pi, runs, scanlog, calls>>

Next ==
    \/ on_item_moved
    \/ on_item_copied
    \/ on_item_linked
    \/ on_item_hardlinked
    \/ on_item_reflinked
    \/ on_cli_exit
    \/ next_pass
    \/ exit_return
    \/ group_begin
    \/ glob_pattern
    \/ glob_raises
    \/ scan_end
    \/ entry_skip
    \/ entry_process

Spec == Init /\ [][Next]_vars

(***************************************************************************)
(* match_patterns called directly, as the tests call it                    *)
(***************************************************************************)
\* set(match_patterns(source, skip=scanned))
match_call ==
    /\ Len(calls) < MaxCalls
    /\ \E source \in ScanDirs :
          LET r == match_patterns(fs, cfg.patterns, source, scanned)
          IN /\ calls' = Append(calls, [source |-> source, given |-> TRUE, skip |-> scanned,
                                        yielded |-> r.yielded, raised |-> r.raised,
                                        after |-> r.skip])
             /\ scanned' = r.skip
    /\ UNCHANGED <<cfg, env, pre, fs, acc, pc, pass, groups, cur, pi, todo, nops, last, runs, exc,
                   scanlog, kindlog>>

\* set(match_patterns(source)): skip is None, a fresh set is used
match_call_noskip ==
    /\ Len(calls) < MaxCalls
    /\ \E source \in ScanDirs :
          LET r == match_patterns(fs, cfg.patterns, source, {})
          IN calls' = Append(calls, [source |-> source, given |-> FALSE, skip |-> {},
                                     yielded |-> r.yielded, raised |-> r.raised,
                                     after |-> r.skip])
    /\ UNCHANGED <<cfg, env, pre, fs, acc, scanned, pc, pass, groups, cur, pi, todo, nops, last,
                   runs, exc, scanlog, kindlog>>

NextMatch ==
    \/ match_call
    \/ match_call_noskip

SpecMatch == Init /\ [][NextMatch]_vars

(***************************************************************************)
(* Properties of process_items and on_cli_exit                             *)
(***************************************************************************)
\* the table with every bare string P written as the one-element list [P]
AsLists(table) ==
    [i \in 1..Len(table) |->
        <<table[i][1],
          IF table[i][2].isstr THEN PatList(<<table[i][2].str>>) ELSE table[i][2]>>]

\* the node a path of the example tree has before the run
InitialNode(q) == TreeOf(PreExisting)[q]

\* the tracks of an album, and the state in which exactly these were
\* notified, all of them to the listener of one kind
AlbumTracks(album) == {t \in Transfers : t.item.album = album}

OnlyAlbum(kind, album) ==
    acc = [k \in Kinds |-> IF k = kind THEN AlbumTracks(album) ELSE {}]

\* C1: an entry whose destination path exists when it is reached is
\* skipped, in a move batch as in any other: the filesystem (the existing
\* destination and the source) is left as it was and no exception leaves
\* process_items
C1_NoOverwrite ==
    [][(nops' = nops + 1 /\ Exists(fs, last'.destination))
          => /\ fs' = fs
             /\ pc' = pc
             /\ exc' = exc
             /\ last'.outcome \in {"SkippedMissing", "SkippedPresent"}]_vars

\* an entry of a move batch was skipped for its destination and its source
\* is still there
C1_Witness ==
    /\ last.kind = MOVE
    /\ last.outcome = "SkippedPresent"
    /\ Exists(fs, last.source)
    /\ Exists(fs, last.destination)

\* C2: a failure of the operating system while one extra file is handled,
\* making the parent directories of its destination included, never leaves
\* on_cli_exit
C2_FailureNeverAborts == ~(pc = "raised" /\ exc = "FilesystemError")

\* C3: CD1/file.cue and CD2/file.cue resolve to the same destination
\* audio.cue: after on_cli_exit the contents of both are in the destination
\* directory, at two different paths
C3_CollisionDisambiguated ==
    (/\ pc = "done"
     /\ runs = 1
     /\ cfg = DiscConfig
     /\ env.denied = {}
     /\ OnlyAlbum(COPY, str_M) \/ OnlyAlbum(MOVE, str_M))
    => \E p1, p2 \in DOMAIN fs :
          /\ p1 # p2
          /\ IsUnder(p1, DstMultiple)
          /\ IsUnder(p2, DstMultiple)
          /\ fs[p1].kind = "file"
          /\ fs[p2].kind = "file"
          /\ fs[p1].data = InitialNode(SrcMultiple \o <<n_CD1, file_cue>>).data
          /\ fs[p2].data = InitialNode(SrcMultiple \o <<n_CD2, file_cue>>).data

\* C4: no source directory is globbed twice, and entries are only handled
\* while the source of the current group is being globbed: a group whose
\* source was globbed before yields nothing
C4_ScanAtMostOnce ==
    /\ \A i, j \in 1..Len(scanlog) :
          (i < j /\ scanlog[i].globbed /\ scanlog[j].globbed)
             => scanlog[i].source # scanlog[j].source
    /\ pc = "entry" =>
          /\ scanlog # <<>>
          /\ scanlog[Len(scanlog)] = [source |-> cur.source, globbed |-> TRUE]

\* within the first run a later group derived a source globbed before
C4_Witness ==
    /\ runs = 1
    /\ \E i, j \in 1..Len(scanlog) :
          /\ i < j
          /\ scanlog[i].source = scanlog[j].source
          /\ scanlog[i].globbed
          /\ ~scanlog[j].globbed

\* the place of an operation in copy, link, hardlink, reflink, move
Rank(kind) ==
    CASE kind = COPY -> 1
      [] kind = LINK -> 2
      [] kind = HARDLINK -> 3
      [] kind = REFLINK -> 4
      [] kind = MOVE -> 5

\* C8: within one run the entries are handled in the order copy, link,
\* hardlink, reflink, move, each with the operation of the set its track was
\* notified to: no operation of a later kind precedes one of an earlier
\* kind, moves come last
C8_BatchOrder ==
    /\ \A i, j \in 1..Len(kindlog) : i < j => Rank(kindlog[i]) <= Rank(kindlog[j])
    /\ last # NoEntry => last.kind = last.from

\* a run handled an entry by copy and a later one by move
C8_Witness ==
    \E i, j \in 1..Len(kindlog) : i < j /\ kindlog[i] = COPY /\ kindlog[j] = MOVE

(***************************************************************************)
(* Properties of match_patterns                                            *)
(***************************************************************************)
\* C5: of two calls in a row on the same source with the same skip set, the
\* second yields nothing and leaves the skip set as it finds it
C5_SecondCallEmpty ==
    \A i \in 1..Len(calls) :
       (/\ i > 1
        /\ calls[i].given
        /\ calls[i - 1].given
        /\ calls[i].source = calls[i - 1].source)
       => /\ calls[i].yielded = {}
          /\ calls[i].after = calls[i].skip

\* C6: a call never yields a path whose suffix is a media type, and a call
\* on a source not in the skip set yields, paired with its category, every
\* other path a configured pattern of that category matches
C6_MediaExcluded ==
    \A i \in 1..Len(calls) :
       /\ \A y \in calls[i].yielded : ~IsMediaPath(y[1])
       /\ calls[i].source \notin calls[i].skip =>
             \A k \in 1..Len(cfg.patterns) :
                LET category == cfg.patterns[k][1]
                    patterns == AsLists(cfg.patterns)[k][2].items
                IN \A n \in 1..Len(patterns) :
                      \A path \in Glob(fs, calls[i].source, patterns[n]) :
                         ~IsMediaPath(path) => <<path, category>> \in calls[i].yielded

\* C7: a category configured as the bare string P behaves as if it were
\* configured as [P]: every call yields, and leaves the skip set, as the
\* call with the table of lists does
C7_BareStringAsList ==
    \A i \in 1..Len(calls) :
       LET r == match_patterns(fs, AsLists(cfg.patterns), calls[i].source, calls[i].skip)
       IN /\ calls[i].yielded = r.yielded
          /\ calls[i].after = r.skip
          /\ calls[i].raised = r.raised

(***************************************************************************)
(* Properties of a whole run on one album                                  *)
(***************************************************************************)
\* what gather_files derives from the tracks of an album
AlbumContext(album) ==
    GroupContext(AlbumTracks(album), CHOOSE t \in AlbumTracks(album) : TRUE)

\* the configured (category, pattern) pairs that match a path of the
\* album's source directory before the run, by their place in the table
MatchingSteps(album, path) ==
    LET steps == PatternSteps(AsLists(cfg.patterns))
    IN {i \in 1..Len(steps) :
           path \in Glob(TreeOf(pre), AlbumContext(album).source, steps[i][2])}

\* the extra files of an album: the paths a configured pattern matches
\* that are not media files
Matched(album) ==
    {path \in DOMAIN TreeOf(pre) : MatchingSteps(album, path) # {} /\ ~IsMediaPath(path)}

\* the templated destination of an extra file, by its first category
ExpectedDestination(album, path) ==
    LET steps == PatternSteps(AsLists(cfg.patterns))
        first == CHOOSE i \in MatchingSteps(album, path) :
                    \A j \in MatchingSteps(album, path) : i <= j
    IN DestinationOf(get_path_formats(cfg.paths), AlbumContext(album), path, steps[first][1])

\* the file or the whole tree that was at path in f0 is at dest in f
SameContent(f0, path, f, dest) ==
    \A r \in Tree(f0, path) :
       LET q == Rebase(r, path, dest)
       IN /\ q \in DOMAIN f
          /\ f[q].kind = f0[r].kind
          /\ f[q].data = f0[r].data

\* the files of the album's source directory no configured pattern
\* matches, by themselves or through a directory above them
Unmatched(album) ==
    {q \in Tree(TreeOf(pre), AlbumContext(album).source) :
        /\ TreeOf(pre)[q].kind = "file"
        /\ \A m \in Matched(album) : ~IsPrefix(m, q)}

\* the content of the file q of the source is somewhere below the album's
\* destination directory
Arrived(album, q) ==
    \E d \in Tree(fs, AlbumContext(album).destination) :
       fs[d].kind # "dir" /\ Stat(fs, d).data = TreeOf(pre)[q].data

\* C9: the tracks of one album were notified as moved, nothing was at the
\* destinations and the operating system refuses nothing: after on_cli_exit
\* every file or directory of the album's source directory that a
\* configured pattern matches is gone from the source and is, a directory
\* with all its children, at its templated destination; every file no
\* pattern matches is still in the source and not in the destination
C9_MoveReplicates ==
    \A album \in {str_S, str_M} :
       (/\ pc = "done"
        /\ runs = 1
        /\ pre = {}
        /\ env.denied = {}
        /\ OnlyAlbum(MOVE, album))
       => /\ \A path \in Matched(album) :
                /\ ~Exists(fs, path)
                /\ SameContent(TreeOf(pre), path, fs, ExpectedDestination(album, path))
          /\ \A q \in Unmatched(album) :
                /\ q \in DOMAIN fs
                /\ fs[q] = TreeOf(pre)[q]
                /\ ~Arrived(album, q)

\* C10: the tracks of one album were notified as copied and the operating
\* system refuses nothing: after on_cli_exit every file or directory a
\* configured pattern matches exists at its templated destination, the
\* source directory is as it was (nothing removed, changed or created), and
\* no file that no pattern matches is in the destination
C10_CopyKeepsSource ==
    \A album \in {str_S, str_M} :
       (/\ pc = "done"
        /\ runs = 1
        /\ env.denied = {}
        /\ OnlyAlbum(COPY, album))
       => /\ \A path \in Matched(album) : Exists(fs, ExpectedDestination(album, path))
          /\ Tree(fs, AlbumContext(album).source) = Tree(TreeOf(pre), AlbumContext(album).source)
          /\ \A q \in Tree(TreeOf(pre), AlbumContext(album).source) : fs[q] = TreeOf(pre)[q]
          /\ \A q \in Unmatched(album) : ~Arrived(album, q)

(***************************************************************************)
(* Properties of gather_files                                              *)
(***************************************************************************)
\* the key of a record: the album artist, the artist when there is none,
\* and the album
KeyOf(t) ==
    <<IF t.item.albumartist # <<>> THEN t.item.albumartist ELSE t.item.artist, t.item.album>>

\* C11: when a batch begins, the groups gather_files will visit partition
\* the records of the batch by key: the members of a group have one key,
\* every record is in exactly one group, and no two groups have the same key
C11_GroupsPartition ==
    [][pass' # pass =>
          LET records == acc'[Batches[pass'].items]
              n == Len(groups')
          IN /\ \A i \in 1..n :
                   /\ groups'[i] # {}
                   /\ \A t, u \in groups'[i] : KeyOf(t) = KeyOf(u)
             /\ UNION {groups'[i] : i \in 1..n} = records
             /\ \A i, j \in 1..n :
                   i # j => /\ groups'[i] \cap groups'[j] = {}
                            /\ \A t \in groups'[i], u \in groups'[j] : KeyOf(t) # KeyOf(u)]_vars

\* a batch has a group of two records that differ in their artist
C11_Witness ==
    /\ pc = "group"
    /\ groups # <<>>
    /\ \E t, u \in Head(groups) : t.item.artist # u.item.artist

\* the records of an album in the batch being handled
OwnRecords(album) == {t \in acc[Batches[pass].items] : t.item.album = album}

\* C12: the source and the destination directory of the group being visited
\* are the common paths of the records of one album alone, and every entry
\* handled lies in the source directory of one album and has its destination
\* below the destination directory of that album, not of the other
C12_NoCrossAlbum ==
    /\ pc = "entry" =>
          \E album \in {str_S, str_M} :
             /\ OwnRecords(album) # {}
             /\ cur.source = CommonPath({Parent(t.source) : t \in OwnRecords(album)})
             /\ cur.destination = CommonPath({Parent(t.destination) : t \in OwnRecords(album)})
    /\ last # NoEntry =>
          \/ /\ IsPrefix(SrcSingle, last.source)
             /\ IsPrefix(DstSingle, last.destination)
             /\ ~IsPrefix(DstMultiple, last.destination)
          \/ /\ IsPrefix(SrcMultiple, last.source)
             /\ IsPrefix(DstMultiple, last.destination)
             /\ ~IsPrefix(DstSingle, last.destination)

\* one batch of the first run holds records of both albums, the first
\* album's directory is scanned and an entry of the second one is done
C12_Witness ==
    /\ runs = 1
    /\ last.outcome = "Done"
    /\ IsPrefix(SrcMultiple, last.source)
    /\ SrcSingle \in scanned
    /\ \E t, u \in acc[last.from] : t.item.album = str_S /\ u.item.album = str_M

(***************************************************************************)
(* get_destination called directly, on relative paths, categories and meta *)
(* mappings of any kind                                                    *)
(***************************************************************************)
\* two entries of "paths" with the same query after get_path_formats: the
\* shorthand key comp and its expansion; a field other than albumpath and
\* filename in a template
CompConfig ==
    [patterns |-> <<<<"comp:true", PatList(<<p_cue>>)>>>>,
     paths |-> <<<<"comp:true", <<Var("albumpath"), Lit(<<Slash>>), Var("album")>>>>,
                 <<"comp", TemplateIn(n_extras)>>>>]

\* relative paths: plain, nested, without suffix, with a leading dot, with
\* reserved characters in the stem and in the suffix
RelPaths ==
    {file_cue, n_CD1 \o <<Slash>> \o file_cue, n_scans, <<Dot>> \o file_log,
     <<"a", "?", ".", "c", "u", "e">>, <<"x", ".", "c", "*">>}

Categories == {"cue", "log", "any", "comp", "comp:true"}

\* the meta mappings gather_files may pass: one with a separator in a field
Metas ==
    {[artist |-> str_A, albumartist |-> str_B, album |-> str_M,
      albumpath |-> PathStr(DstMultiple)],
     [artist |-> str_A, albumartist |-> NoneStr, album |-> str_M \o <<Slash>> \o str_S,
      albumpath |-> PathStr(DstSingle)]}

MaxResolves == 1

InitDest ==
    /\ cfg \in Configs \cup {CompConfig}
    /\ env \in Envs
    /\ pre \in {{}, PreExisting}
    /\ fs = TreeOf(pre)
    /\ acc = [k \in Kinds |-> {}]
    /\ scanned = {}
    /\ pc = "idle"
    /\ pass = 0
    /\ groups = <<>>
    /\ cur = NoCtx
    /\ pi = 0
    /\ todo = {}
    /\ nops = 0
    /\ last = NoEntry
    /\ runs = 0
    /\ exc = ""
    /\ scanlog = <<>>
    /\ kindlog = <<>>
    /\ calls = <<>>

\* self.get_destination(relpath, category, meta.copy())
resolve_call ==
    /\ Len(calls) < MaxResolves
    /\ \E path \in RelPaths, category \in Categories, meta \in Metas :
          calls' = Append(calls,
                          [path |-> path, category |-> category, meta |-> meta,
                           destination |-> get_destination(get_path_formats(cfg.paths),
                                                           path, category, meta)])
    /\ UNCHANGED <<cfg, env, pre, fs, acc, scanned, pc, pass, groups, cur, pi, todo, nops,
                   last, runs, exc, scanlog, kindlog>>

NextDest == resolve_call

SpecDest == InitDest /\ [][NextDest]_vars

(***************************************************************************)
(* Properties of get_destination                                           *)
(***************************************************************************)
\* the template the claim names for a category: that of the first entry of
\* the path formats whose query is the category, the default one otherwise
TemplateFor(category) ==
    LET pf == get_path_formats(cfg.paths)
    IN IF \E i \in 1..Len(pf) : pf[i][1] = category
       THEN pf[CHOOSE i \in 1..Len(pf) :
                  pf[i][1] = category /\ \A j \in 1..(i - 1) : pf[j][1] # category][2]
       ELSE <<Var("albumpath"), Lit(<<Slash>>), Var("filename")>>

\* the fields a template is evaluated with: those of meta, and the name and
\* the name without its suffix of the sanitized relative path
FieldsFor(path, meta) ==
    LET clean == ParsePath(sanitize_path(path))
    IN [artist |-> meta.artist, albumartist |-> meta.albumartist, album |-> meta.album,
        albumpath |-> meta.albumpath,
        basename |-> clean[Len(clean)],
        filename |-> RelStr(SubSeq(clean, 1, Len(clean) - 1)
                            \o <<StemOf(clean[Len(clean)])>>)]

Skeleton(template) ==
    ParsePath(Substitute(template,
                         [k \in {"artist", "albumartist", "album", "albumpath", "basename",
                                 "filename"} |-> <<"x">>]))

\* C14: the components of albumpath are all in the result, and no other
\* field adds a component: the result has the components of albumpath and
\* those the template's own text separates; under the default template the
\* nested CD1/file.cue resolves to <albumpath>/CD1_file.cue
C14_SeparatorHandling ==
    \A i \in 1..Len(calls) :
       LET c == calls[i]
           album_dir == ParsePath(c.meta.albumpath)
       IN /\ IsPrefix(album_dir, c.destination)
          /\ Len(c.destination) = Len(album_dir) + Len(Skeleton(TemplateFor(c.category))) - 1
          /\ (c.path = n_CD1 \o <<Slash>> \o file_cue
              /\ TemplateFor(c.category) = <<Var("albumpath"), Lit(<<Slash>>), Var("filename")>>)
             => c.destination = album_dir \o <<n_CD1 \o <<"_">> \o file_cue>>

\* the nested CD1/file.cue was resolved with the default template
C14_Witness ==
    \E i \in 1..Len(calls) :
       /\ cfg = TestConfig
       /\ calls[i].category = "cue"
       /\ calls[i].path = n_CD1 \o <<Slash>> \o file_cue
       /\ calls[i].destination = DstMultiple \o <<n_CD1 \o <<"_">> \o file_cue>>

(***************************************************************************)
(* Properties of the five sets and of the scanned paths                    *)
(***************************************************************************)
\* C15 as stated: after on_cli_exit has returned each of the five sets is
\* empty
C15_AccumulatorsDrained == pc = "done" => \A k \in Kinds : acc[k] = {}

\* C15 amended: on_cli_exit only reads the five sets; from its call to its
\* return, or to the exception that leaves it, no step changes them
C15_AccumulatorsKept == [][pc' # "idle" => acc' = acc]_vars

\* on_cli_exit has returned, it handled an entry, and the record of the
\* moved track is still in its set
C15_Witness ==
    /\ pc = "done"
    /\ last.kind = MOVE
    /\ last.run = runs
    /\ acc[MOVE] # {}

\* C16: an entry whose destination is the same underlying file as its
\* source ends skipped, whatever the operation: the filesystem is left as it
\* was, the outcome is neither a failure nor an exception
C16_SameFileSkipped ==
    [][(nops' = nops + 1 /\ SameFile(fs, last'.source, last'.destination))
          => /\ fs' = fs
             /\ pc' = pc
             /\ exc' = exc
             /\ last'.outcome \in {"SkippedPresent", "SameFile"}]_vars

\* an entry of a reflink batch whose destination is a hard link to its
\* source was skipped
C16_Witness ==
    /\ last.kind = REFLINK
    /\ last.outcome \in {"SkippedPresent", "SameFile"}
    /\ last.source # last.destination
    /\ SameFile(fs, last.source, last.destination)

\* the step adds the notified triple to the set of kind, a triple already
\* there leaving it as it is, and changes nothing else
Routed(kind) ==
    /\ \E n \in Notifications :
          acc'[kind] = acc[kind] \cup {[item |-> n.item, source |-> ParsePath(n.source),
                                       destination |-> ParsePath(n.destination)]}
    /\ \A k \in Kinds \ {kind} : acc'[k] = acc[k]
    /\ scanned' = scanned
    /\ fs' = fs

\* C17: each of the five listeners (their steps end with the plugin idle)
\* adds the triple to the set of its own kind only and leaves the other four
\* sets, the scanned paths and the filesystem unchanged
C17_EventRouting ==
    [][pc' = "idle" =>
          /\ on_item_moved => Routed(MOVE)
          /\ on_item_copied => Routed(COPY)
          /\ on_item_linked => Routed(LINK)
          /\ on_item_hardlinked => Routed(HARDLINK)
          /\ on_item_reflinked => Routed(REFLINK)]_vars

\* after a run that scanned a directory, tracks are recorded as moved and
\* as copied, each in its own set
C17_Witness ==
    /\ pc = "idle"
    /\ scanned # {}
    /\ acc[MOVE] # {}
    /\ acc[COPY] # {}
    /\ acc[MOVE] \cap acc[COPY] = {}

\* the places in the order of the batches whose set holds records that
\* derive the source directory D
BatchesOf(D) ==
    {k \in 1..Len(Batches) :
        \E i \in 1..Len(GatherPass(k)) :
           CommonPath({Parent(t.source) : t \in GatherPass(k)[i]}) = D}

\* C18: an entry of the source directory D is handled by the first batch, in
\* the order copy, link, hardlink, reflink, move, whose set holds records
\* that derive D, and by no later one; when that batch is not the move
\* batch, the step leaves everything in D as it is
C18_FirstPassClaims ==
    [][nops' = nops + 1 =>
          /\ pass \in BatchesOf(cur.source)
          /\ \A k \in BatchesOf(cur.source) : pass <= k
          /\ last'.kind = Batches[pass].action
          /\ last'.kind # MOVE =>
                \A q \in Tree(fs, cur.source) : q \in DOMAIN fs' /\ fs'[q] = fs[q]]_vars

\* the track of an album is recorded as copied and as moved: the run is
\* over, the last entry handled was copied and is still in the source
C18_Witness ==
    /\ pc = "done"
    /\ acc[COPY] \cap acc[MOVE] # {}
    /\ last.run = runs
    /\ last.kind = COPY
    /\ last.outcome = "Done"
    /\ Exists(fs, last.source)
    /\ Exists(fs, last.dest_path)

\* the directory d is the deepest common ancestor-or-equal of the parent
\* directories of the paths
DeepestCommon(d, paths) ==
    /\ \A p \in paths : IsPrefix(d, Parent(p))
    /\ \A p \in paths : \A n \in 0..Len(p) :
          (\A q \in paths : IsPrefix(SubSeq(p, 1, n), Parent(q))) => n <= Len(d)

\* C19: when gather_files reaches a group, the source directory it derives
\* is the longest common prefix of the parent directories of the group's
\* source paths, the destination directory that of its destination paths;
\* for tracks of one directory it is that directory
C19_CommonPath ==
    [][scanlog' # scanlog =>
          LET sources == {t.source : t \in Head(groups)}
              destinations == {t.destination : t \in Head(groups)}
          IN /\ DeepestCommon(cur'.source, sources)
             /\ DeepestCommon(cur'.destination, destinations)
             /\ \A d \in {Parent(p) : p \in sources} :
                   (\A p \in sources : Parent(p) = d) => cur'.source = d
             /\ \A d \in {Parent(p) : p \in destinations} :
                   (\A p \in destinations : Parent(p) = d) => cur'.destination = d]_vars

\* the group of the two discs: the tracks lie in CD1 and CD2, the source
\* directory derived is the one above them
C19_Witness ==
    /\ pc = "entry"
    /\ cur.source = SrcMultiple
    /\ cur.destination = DstMultiple
    /\ \E t, u \in Head(groups) : Parent(t.source) # Parent(u.source)

\* C20: no step removes a scanned path; a step that adds one adds the
\* source of the current group, when every (category, pattern) was globbed
\* and every glob result was skipped or handled by process_items; the source
\* of a scan that an exception cut short is not among the scanned paths
C20_ScannedMonotone ==
    /\ [][/\ scanned \subseteq scanned'
          /\ scanned' # scanned =>
                /\ scanned' = scanned \cup {cur.source}
                /\ pc = "entry"
                /\ todo = {}
                /\ pi = Len(PatternSteps(cfg.patterns))]_vars
    /\ [](pc = "raised" => cur.source \notin scanned)

\* one directory was scanned to its end and added, the scan of another was
\* cut short by an exception after an entry of it was handled
C20_Witness ==
    /\ pc = "raised"
    /\ scanned # {}
    /\ cur.source \notin scanned
    /\ last.run = runs
    /\ IsPrefix(cur.source, last.source)

(***************************************************************************)
(* Properties of repeated calls and of skipped entries                     *)
(***************************************************************************)
\* the source directory of every group of every one of the five sets is
\* among the scanned paths
AllSourcesScanned ==
    \A k \in Kinds : \A i \in 1..Len(GroupsOf(acc[k])) :
        CommonPath({Parent(t.source) : t \in GroupsOf(acc[k])[i]}) \in scanned

\* C21: when on_cli_exit has returned, every group's source is a scanned
\* path; and from such a state, as long as no listener changes the five
\* sets, no step of on_cli_exit globs, handles an entry, or changes the
\* filesystem, the five sets or the scanned paths: a second call right after
\* a completed one only walks the groups and returns
C21_ExitIdempotent ==
    /\ [](pc = "done" => AllSourcesScanned)
    /\ [][(AllSourcesScanned /\ pc # "raised" /\ acc' = acc) =>
             /\ fs' = fs
             /\ scanned' = scanned
             /\ nops' = nops
             /\ last' = last
             /\ pc' \in {"idle", "group", "done"}]_vars

\* a second call has returned after a first one that handled entries, the
\* one notification having come before the first call
C21_Witness ==
    /\ pc = "done"
    /\ runs = 2
    /\ TotalEvents = 1
    /\ last.run = 1
    /\ last.outcome = "Done"
    /\ fs # TreeOf(pre)

(***************************************************************************)
(* process_items called directly on pairs of the caller's choosing         *)
(***************************************************************************)
\* sources: a file, a directory, and a path that does not exist
ItemSources ==
    {SrcSingle \o <<file_cue>>, SrcSingle \o <<n_scans>>, SrcMultiple \o <<file_cue>>}

\* destinations: one that may exist before the run, one in a directory that
\* does not exist, one in an existing directory
ItemDestinations ==
    {DstSingle \o <<file_cue>>, DstMultiple \o <<n_extras, file_cue>>, DstMultiple \o <<n_scans>>}

\* process_items calling mkdirall before it looks at the source and at the
\* destination
process_call_mkdir_first ==
    /\ pc = "idle"
    /\ nops < MaxCalls
    /\ \E kind \in Kinds, source \in ItemSources, destination \in ItemDestinations :
          LET made == mkdirall(fs, env, destination, nops + 1)
              r == process_entry(kind, made.fs, env, source, destination, nops + 1)
          IN /\ fs' = r.fs
             /\ last' = [kind |-> kind, from |-> kind, source |-> source,
                         destination |-> destination, dest_path |-> r.dest_path,
                         category |-> "", outcome |-> r.outcome, run |-> 0]
             /\ IF r.outcome = "Raised"
                THEN pc' = "raised" /\ exc' = "FilesystemError"
                ELSE UNCHANGED <<pc, exc>>
    /\ nops' = nops + 1
    /\ UNCHANGED <<cfg, env, pre, acc, scanned, pass, groups, cur, pi, todo, runs, scanlog,
                   kindlog, calls>>

\* one iteration of process_items(files, action) on the next pair of files
process_call ==
    /\ pc = "idle"
    /\ nops < MaxCalls
    /\ \E kind \in Kinds, source \in ItemSources, destination \in ItemDestinations :
          LET r == process_entry(kind, fs, env, source, destination, nops + 1)
          IN /\ fs' = r.fs
             /\ last' = [kind |-> kind, from |-> kind, source |-> source,
                         destination |-> destination, dest_path |-> r.dest_path,
                         category |-> "", outcome |-> r.outcome, run |-> 0]
             /\ IF r.outcome = "Raised"
                THEN pc' = "raised" /\ exc' = "FilesystemError"
                ELSE UNCHANGED <<pc, exc>>
    /\ nops' = nops + 1
    /\ UNCHANGED <<cfg, env, pre, acc, scanned, pass, groups, cur, pi, todo, runs, scanlog,
                   kindlog, calls>>

NextItems == process_call

SpecItems == Init /\ [][NextItems]_vars

Skipped == {"SkippedMissing", "SkippedPresent"}

\* C22: an entry is skipped as missing exactly when its source does not
\* exist, and as present exactly when its source exists and its destination
\* exists; the step of a skipped entry leaves the filesystem as it was; a step
\* after which a directory exists that did not exist before is the step of an
\* entry that passed both checks
C22_SkipChangesNothing ==
    [][nops' = nops + 1 =>
          /\ last'.outcome = "SkippedMissing" <=> ~Exists(fs, last'.source)
          /\ last'.outcome = "SkippedPresent" <=>
                Exists(fs, last'.source) /\ Exists(fs, last'.destination)
          /\ last'.outcome \in Skipped => fs' = fs
          /\ (\E d \in DOMAIN fs' : IsDir(fs', d) /\ ~(d \in DOMAIN fs /\ IsDir(fs, d))) =>
                last'.outcome \notin Skipped]_vars

\* an entry was skipped for its missing source, and the directory its
\* destination lies in does not exist
C22_Witness ==
    /\ last.outcome = "SkippedMissing"
    /\ ~Exists(fs, last.source)
    /\ ~Exists(fs, Parent(last.destination))

UnderSrc(f) == {p \in DOMAIN f : p # <<>> /\ p[1] = n_src}

====
